---- MODULE Spec2Model ----
(***************************************************************************)
(* Dependency detection of dependencies.py: the resolution entry point     *)
(* find_external_dependency, the pkg-config probe PkgConfigDependency, the *)
(* custom detectors (Boost, GTest, GMock, Qt5) and the PackageDependency    *)
(* wrapper, over an environment of a pkg-config installation and a file    *)
(* system.                                                                 *)
(*                                                                         *)
(* Python strings are sequences of atoms: a separator the code splits on   *)
(* ("." "_" "/" and white space) is an atom of its own, so that split,     *)
(* strip, endswith, basename and string concatenation are computed as the  *)
(* code computes them.                                                     *)
(***************************************************************************)
EXTENDS Integers, Sequences, FiniteSets, TLC

VARIABLES
    pkgconfig_found,  \* PkgConfigDependency.pkgconfig_found (class attribute)
    tool,             \* environment: the pkg-config executable
    pkgdb,            \* environment: what pkg-config knows of each package
    files,            \* environment: paths of the regular files that exist
    dirs,             \* environment: paths of the directories that exist
    header,           \* environment: content of /usr/include/boost/version.hpp
    path,             \* environment: helper programs on the search path
    call,             \* arguments of the last find_external_dependency call
    built,            \* what the detector's constructor gave it (dep, line 159)
    res,              \* its outcome: the object returned or the exception raised
    log,              \* the subprocess queries it issued, in order
    check_runs,       \* executions of check_pkgconfig so far
    check_oks,        \* executions of check_pkgconfig that exited 0 so far
    seen,             \* accessor results last read from the returned object
    env_changed       \* the environment changed since the last call returned

vars == <<pkgconfig_found, tool, pkgdb, files, dirs, header, path,
          call, built, res, log, check_runs, check_oks, seen, env_changed>>

envPkg == <<tool, pkgdb>>
envFs == <<files, dirs, header, path>>

\* Bound on the executions of check_pkgconfig in one behaviour.
MaxCheckRuns == 3

-----------------------------------------------------------------------------
(* Python string operations on sequences of atoms.                         *)

Whitespace == {" ", "\n"}

RECURSIVE SplitRuns(_, _, _)
SplitRuns(s, cur, acc) ==
    LET flush == IF cur = <<>> THEN acc ELSE Append(acc, cur)
    IN  IF s = <<>> THEN flush
        ELSE IF Head(s) \in Whitespace THEN SplitRuns(Tail(s), <<>>, flush)
        ELSE SplitRuns(Tail(s), Append(cur, Head(s)), acc)

\* str.split(): the maximal runs of non-white-space atoms, in order.
Split(s) == SplitRuns(s, <<>>, <<>>)

RECURSIVE LStrip(_)
LStrip(s) ==
    IF s # <<>> /\ Head(s) \in Whitespace THEN LStrip(Tail(s)) ELSE s

RECURSIVE RStrip(_)
RStrip(s) ==
    IF s # <<>> /\ s[Len(s)] \in Whitespace
    THEN RStrip(SubSeq(s, 1, Len(s) - 1)) ELSE s

\* str.strip()
Strip(s) == RStrip(LStrip(s))

\* str.startswith / str.endswith
StartsWith(s, p) == Len(s) >= Len(p) /\ SubSeq(s, 1, Len(p)) = p
EndsWith(s, p) ==
    Len(s) >= Len(p) /\ SubSeq(s, Len(s) - Len(p) + 1, Len(s)) = p

\* Positions of the atom sep in s.
Positions(s, sep) == {i \in 1..Len(s) : s[i] = sep}

Min(S) == CHOOSE x \in S : \A y \in S : x <= y
Max(S) == CHOOSE x \in S : \A y \in S : x >= y

\* s.split(sep)[0]
SplitFirst(s, sep) ==
    IF Positions(s, sep) = {} THEN s
    ELSE SubSeq(s, 1, Min(Positions(s, sep)) - 1)

\* s.split(sep, 1)[-1]
SplitOnceLast(s, sep) ==
    IF Positions(s, sep) = {} THEN s
    ELSE SubSeq(s, Min(Positions(s, sep)) + 1, Len(s))

\* s[1:-1]
Slice1m1(s) == SubSeq(s, 2, Len(s) - 1)

\* s.replace('_', '.')
Replace(s, a, b) == [i \in 1..Len(s) |-> IF s[i] = a THEN b ELSE s[i]]

\* os.path.join(d, f), os.path.basename(p) and os.path.split(p)[-1]
Join(d, f) == d \o <<"/">> \o f
Basename(p) ==
    IF Positions(p, "/") = {} THEN p
    ELSE SubSeq(p, Max(Positions(p, "/")) + 1, Len(p))
Dirname(p) ==
    IF Positions(p, "/") = {} THEN <<>>
    ELSE SubSeq(p, 1, Max(Positions(p, "/")) - 1)

-----------------------------------------------------------------------------
(* Python values, call outcomes.                                           *)

\* An optional value (a dict key that may be missing, a field that may be
\* None) is the empty set or a singleton.
Nothing == {}
Some(v) == {v}
The(o) == CHOOSE v \in o : TRUE

PyStr(s) == [str |-> s]
PyList(l) == [list |-> l]
PyInt(n) == [int |-> n]
IsStr(v) == "str" \in DOMAIN v

NoObj == [cls |-> "None"]
Returned(obj) == [kind |-> "object", exc |-> "none", about |-> <<>>, obj |-> obj]
Raised(exc, about) == [kind |-> "raise", exc |-> exc, about |-> about, obj |-> NoObj]
NoCall == [kind |-> "none", exc |-> "none", about |-> <<>>, obj |-> NoObj]

\* raise DependencyException(msg): __init__ hands the message to
\* MesonException.__init__ in the place of self.  With a base class whose
\* __init__ is (or reaches) Exception.__init__ the constructor call itself
\* raises TypeError and the message is lost; the base class is defined
\* outside this file, so both outcomes are kept.
DependencyException(r) ==
    IF r.exc = "DependencyException" THEN {r, Raised("TypeError", <<>>)} ELSE {r}

-----------------------------------------------------------------------------
(* The pkg-config executable.                                              *)

ToolStates == {"ok", "fails", "absent"}
PkgStates == {"absent", "ok", "cflags_fail", "libs_fail"}
Zlib == <<"zlib">>
Qt5Core == <<"Qt5", "Core">>
PkgNames == {Zlib, Qt5Core}

\* Exit code and stdout of `pkg-config <opt> <name>`; Popen raises OSError
\* when the executable is missing.
Stdout(opt) ==
    CASE opt = "--version" -> <<"0.26", "\n">>
      [] opt = "--modversion" -> <<"1.2.8", "\n">>
      [] opt = "--cflags" -> <<"-I/usr/include/pkg", " ", "-DPKG", " ", "\n">>
      [] opt = "--libs" -> <<"-L/usr/lib/pkg", " ", "-lpkg", "\n">>

ExitCode(opt, name) ==
    LET st == IF name \in DOMAIN pkgdb THEN pkgdb[name] ELSE "absent"
    IN  CASE opt = "--version" -> IF tool = "ok" THEN 0 ELSE 1
          [] opt = "--modversion" -> IF st = "absent" THEN 1 ELSE 0
          [] opt = "--cflags" -> IF st \in {"ok", "libs_fail"} THEN 0 ELSE 1
          [] opt = "--libs" -> IF st = "ok" THEN 0 ELSE 1

Popen(opt, name) ==
    IF tool = "absent"
    THEN [oserror |-> TRUE, returncode |-> 1, out |-> <<>>]
    ELSE [oserror |-> FALSE, returncode |-> ExitCode(opt, name),
          out |-> IF ExitCode(opt, name) = 0 THEN Stdout(opt) ELSE <<>>]

Query(opt, name) == <<[opt |-> opt, name |-> name]>>

\* check_pkgconfig that forgets to record its success.
check_pkgconfig_unrecorded ==
    LET p == Popen("--version", <<>>)
        q == Query("--version", <<>>)
    IN  IF p.oserror
        THEN [exc |-> "OSError", log |-> q, flag |-> pkgconfig_found,
              runs |-> 1, oks |-> 0]
        ELSE IF p.returncode # 0
        THEN [exc |-> "RuntimeError", log |-> q, flag |-> pkgconfig_found,
              runs |-> 1, oks |-> 0]
        ELSE [exc |-> "none", log |-> q, flag |-> pkgconfig_found,
              runs |-> 1, oks |-> 1]

\* PkgConfigDependency.check_pkgconfig: [exc, log, flag, runs, oks]
check_pkgconfig ==
    LET p == Popen("--version", <<>>)
        q == Query("--version", <<>>)
    IN  IF p.oserror
        THEN [exc |-> "OSError", log |-> q, flag |-> pkgconfig_found,
              runs |-> 1, oks |-> 0]
        ELSE IF p.returncode # 0
        THEN [exc |-> "RuntimeError", log |-> q, flag |-> pkgconfig_found,
              runs |-> 1, oks |-> 0]
        ELSE [exc |-> "none", log |-> q, flag |-> TRUE, runs |-> 1, oks |-> 1]

\* PkgConfigDependency.__init__ that does not test the exit code of --cflags.
PkgConfigDependency_cflags_unchecked(name, required) ==
    LET chk == IF ~pkgconfig_found THEN check_pkgconfig
               ELSE [exc |-> "none", log |-> <<>>, flag |-> pkgconfig_found,
                     runs |-> 0, oks |-> 0]
        mv == Popen("--modversion", name)
        cf == Popen("--cflags", name)
        lb == Popen("--libs", name)
        q1 == Query("--modversion", name)
        q2 == q1 \o Query("--cflags", name)
        q3 == q2 \o Query("--libs", name)
        out(ret, lg) == [ret |-> ret, built |-> ret, log |-> chk.log \o lg,
                         flag |-> chk.flag, runs |-> chk.runs, oks |-> chk.oks]
        self == [cls |-> "PkgConfigDependency", is_found |-> FALSE,
                 modversion |-> <<>>, cflags |-> <<>>, libs |-> <<>>]
    IN  IF chk.exc # "none" THEN out(Raised(chk.exc, <<>>), <<>>)
        ELSE IF mv.oserror THEN out(Raised("OSError", <<>>), q1)
        ELSE IF mv.returncode # 0
        THEN IF required
             THEN out(Raised("DependencyException", name), q1)
             ELSE out(Returned([self EXCEPT !.modversion = <<"none">>]), q1)
        ELSE IF cf.oserror THEN out(Raised("OSError", <<>>), q2)
        ELSE IF lb.oserror THEN out(Raised("OSError", <<>>), q3)
        ELSE IF lb.returncode # 0 THEN out(Raised("RuntimeError", name), q3)
        ELSE out(Returned([self EXCEPT !.is_found = TRUE,
                                       !.modversion = Strip(mv.out),
                                       !.cflags = Split(cf.out),
                                       !.libs = Split(lb.out)]), q3)

\* PkgConfigDependency.__init__(name, required):
\* [ret, built, log, flag, runs, oks], ret the object built or the exception
\* raised.
PkgConfigDependency(name, required) ==
    LET chk == IF ~pkgconfig_found THEN check_pkgconfig
               ELSE [exc |-> "none", log |-> <<>>, flag |-> pkgconfig_found,
                     runs |-> 0, oks |-> 0]
        mv == Popen("--modversion", name)
        cf == Popen("--cflags", name)
        lb == Popen("--libs", name)
        q1 == Query("--modversion", name)
        q2 == q1 \o Query("--cflags", name)
        q3 == q2 \o Query("--libs", name)
        out(ret, lg) == [ret |-> ret, built |-> ret, log |-> chk.log \o lg,
                         flag |-> chk.flag, runs |-> chk.runs, oks |-> chk.oks]
        self == [cls |-> "PkgConfigDependency", is_found |-> FALSE,
                 modversion |-> <<>>, cflags |-> <<>>, libs |-> <<>>]
    IN  IF chk.exc # "none" THEN out(Raised(chk.exc, <<>>), <<>>)
        ELSE IF mv.oserror THEN out(Raised("OSError", <<>>), q1)
        ELSE IF mv.returncode # 0
        THEN IF required
             THEN out(Raised("DependencyException", name), q1)
             ELSE out(Returned([self EXCEPT !.modversion = <<"none">>]), q1)
        ELSE IF cf.oserror THEN out(Raised("OSError", <<>>), q2)
        ELSE IF cf.returncode # 0 THEN out(Raised("RuntimeError", name), q2)
        ELSE IF lb.oserror THEN out(Raised("OSError", <<>>), q3)
        ELSE IF lb.returncode # 0 THEN out(Raised("RuntimeError", name), q3)
        ELSE out(Returned([self EXCEPT !.is_found = TRUE,
                                       !.modversion = Strip(mv.out),
                                       !.cflags = Split(cf.out),
                                       !.libs = Split(lb.out)]), q3)

-----------------------------------------------------------------------------
(* The file system.                                                        *)

IncDir == <<"/usr/include/boost">>
LibDir == <<"/usr/lib">>
VersionHpp == Join(IncDir, <<"version", ".", "hpp">>)

LibThread == <<"libboost", "_", "thread", ".", "so">>
LibThreadMt == <<"libboost", "_", "thread", "-mt", ".", "so">>
LibPython36 == <<"libboost", "_", "python-3", ".", "6", ".", "so">>
LibGMock == <<"libgmock", ".", "so">>
GTestAll == Join(<<"/usr/src/gtest/src">>, <<"gtest-all", ".", "cc">>)

BoostLibFiles == {Join(LibDir, f) : f \in {LibThread, LibThreadMt, LibPython36}}
FixedFiles == {GTestAll, Join(LibDir, LibGMock)}
BoostDirs == {Join(IncDir, <<"thread">>), Join(IncDir, <<"algorithm">>)}

\* Lines of version.hpp
HdrComment == <<"//", " ", "BOOST_LIB_VERSION", " ", "below", "\n">>
HdrVersion == <<"#define", " ", "BOOST_VERSION", " ", "105300", "\n">>
HdrLibVersion ==
    <<"#define", " ", "BOOST_LIB_VERSION", " ", "\"", "1", "_", "53", "\"", "\n">>
Headers ==
    {Nothing, Some(<<HdrComment, HdrVersion>>),
     Some(<<HdrComment, HdrVersion, HdrLibVersion>>)}

Programs == {"moc", "uic"}

\* Every path that exists.
AllPaths == files \cup dirs \cup (IF header # Nothing THEN {VersionHpp} ELSE {})

\* os.path.exists(p)
Exists(p) == p \in AllPaths

\* os.listdir(d): the names of the entries of directory d
ListDir(d) == {Basename(p) : p \in {q \in AllPaths : Dirname(q) = d}}

\* stat.S_ISDIR(os.stat(p).st_mode)
IsDir(p) == p \in dirs

\* glob.glob(os.path.join(d, 'libboost_*.so'))
Glob(d) ==
    {p \in AllPaths :
        /\ Dirname(p) = d
        /\ StartsWith(Basename(p), <<"libboost", "_">>)
        /\ EndsWith(Basename(p), <<".", "so">>)
        /\ Len(Basename(p)) >= Len(<<"libboost", "_">>) + Len(<<".", "so">>)}

-----------------------------------------------------------------------------
(* BoostDependency                                                         *)

RECURSIVE ScanVersion_any_mention(_)
\* detect_version that takes any line mentioning the directive's name.
ScanVersion_any_mention(lines) ==
    IF lines = <<>> THEN Nothing
    ELSE LET line == Head(lines)
             toks == Split(line)
         IN  IF \E i \in 1..Len(line) : line[i] = "BOOST_LIB_VERSION"
             THEN Some(Replace(Slice1m1(toks[Len(toks)]), "_", "."))
             ELSE ScanVersion_any_mention(Tail(lines))

RECURSIVE ScanVersion(_)
\* The loop of detect_version over the lines of the header.
ScanVersion(lines) ==
    IF lines = <<>> THEN Nothing
    ELSE LET line == Head(lines)
             toks == Split(line)
         IN  IF StartsWith(line, <<"#define">>)
                /\ \E i \in 1..Len(line) : line[i] = "BOOST_LIB_VERSION"
             THEN Some(Replace(Slice1m1(toks[Len(toks)]), "_", "."))
             ELSE ScanVersion(Tail(lines))

\* BoostDependency.detect_version: [exc, version]; open() raises when the
\* header file does not exist.
detect_version ==
    IF header = Nothing THEN [exc |-> "OSError", version |-> Nothing]
    ELSE [exc |-> "none", version |-> ScanVersion(The(header))]

RECURSIVE AllStr(_)
AllStr(l) == l = <<>> \/ (IsStr(Head(l)) /\ AllStr(Tail(l)))

\* BoostDependency.get_requested(kwargs): [exc, requested]
get_requested(kwargs) ==
    IF kwargs.modules = Nothing
    THEN [exc |-> "InvalidArguments", requested |-> <<>>]
    ELSE LET candidates == The(kwargs.modules)
         IN  IF IsStr(candidates)
             THEN [exc |-> "none", requested |-> <<candidates.str>>]
             ELSE IF ~AllStr(candidates.list)
             THEN [exc |-> "InvalidArguments", requested |-> <<>>]
             ELSE [exc |-> "none",
                   requested |-> [i \in 1..Len(candidates.list) |->
                                     candidates.list[i].str]]

\* BoostDependency.detect_src_modules
detect_src_modules ==
    {Basename(Join(IncDir, e)) : e \in {x \in ListDir(IncDir) : IsDir(Join(IncDir, x))}}

\* BoostDependency.detect_lib_modules
detect_lib_modules ==
    {SplitOnceLast(SplitFirst(Basename(entry), "."), "_") :
        entry \in {g \in Glob(LibDir) : ~EndsWith(g, <<"-mt", ".", "so">>)}}

\* validate_requested that looks at the first requested module only.
validate_requested_first(requested, src_modules) ==
    IF requested = <<>> \/ requested[1] \in src_modules THEN Nothing
    ELSE Some(requested[1])

\* BoostDependency.validate_requested: the first requested module that is
\* not a header module, if any.
validate_requested(requested, src_modules) ==
    LET bad == {i \in 1..Len(requested) : requested[i] \notin src_modules}
    IN  IF bad = {} THEN Nothing ELSE Some(requested[Min(bad)])

\* BoostDependency.__init__(kwargs): the object built or the exception raised
BoostDependency(kwargs) ==
    LET dv == detect_version
        gr == get_requested(kwargs)
        self == [cls |-> "BoostDependency", incdir |-> IncDir, libdir |-> LibDir,
                 src_modules |-> {}, lib_modules |-> {},
                 version |-> dv.version, requested_modules |-> gr.requested]
        src == detect_src_modules
        miss == validate_requested(gr.requested, src)
    IN  IF dv.exc # "none" THEN Raised(dv.exc, <<>>)
        ELSE IF gr.exc # "none" THEN Raised(gr.exc, <<>>)
        ELSE IF dv.version = Nothing THEN Returned(self)
        ELSE IF miss # Nothing THEN Raised("InvalidArguments", The(miss))
        ELSE Returned([self EXCEPT !.src_modules = src,
                                   !.lib_modules = detect_lib_modules])

RECURSIVE BoostLinkFlags(_, _)
\* BoostDependency.get_link_flags
BoostLinkFlags(requested, lib_modules) ==
    IF requested = <<>> THEN <<>>
    ELSE (IF Head(requested) \in lib_modules
          THEN <<(<<"-lboost_">> \o Head(requested))>> ELSE <<>>)
         \o BoostLinkFlags(Tail(requested), lib_modules)

-----------------------------------------------------------------------------
(* GTestDependency, GMockDependency, ExternalProgram, Qt5Dependency         *)

\* GTestDependency.__init__
GTestDependency ==
    [cls |-> "GTestDependency", include_dir |-> <<"/usr/include">>,
     src_include_dir |-> <<"/usr/src/gtest">>,
     src_dir |-> <<"/usr/src/gtest/src">>,
     all_src |-> Join(<<"/usr/src/gtest/src">>, <<"gtest-all", ".", "cc">>),
     main_src |-> Join(<<"/usr/src/gtest/src">>, <<"gtest_main", ".", "cc">>)]

\* GMockDependency.__init__
GMockDependency ==
    [cls |-> "GMockDependency", libdir |-> <<"/usr/lib">>,
     libname |-> <<"libgmock", ".", "so">>]

\* ExternalProgram(name): fullpath keeps its default, None; nothing looks the
\* name up.
ExternalProgram(name) == [name |-> name, fullpath |-> Nothing]

\* ExternalProgram.found
ProgramFound(prog) == prog.fullpath # Nothing

\* The items the loop `for module in kwargs.get('modules', [])` visits: the
\* elements of a list, the characters of a string.
Qt5Modules(kwargs) ==
    IF kwargs.modules = Nothing THEN <<>>
    ELSE IF IsStr(The(kwargs.modules)) THEN The(kwargs.modules).str
    ELSE The(kwargs.modules).list

\* Qt5Dependency.__init__(kwargs).  The first iteration calls
\* PkgConfigDependency('Qt5' + module) without `required`, which raises
\* TypeError before the body of PkgConfigDependency.__init__ runs; with no
\* iteration the empty list raises DependencyException.  No path returns.
Qt5Dependency(kwargs) ==
    IF Len(Qt5Modules(kwargs)) > 0 THEN Raised("TypeError", <<>>)
    ELSE Raised("DependencyException", <<>>)

-----------------------------------------------------------------------------
(* Accessors.  A PackageDependency forwards each one to the detector it    *)
(* wraps.  No Qt5Dependency object exists: its constructor never returns.  *)

Unwrap(obj) == IF obj.cls = "PackageDependency" THEN obj.dep ELSE obj

\* found()
found(obj) ==
    LET d == Unwrap(obj)
    IN  CASE d.cls = "PkgConfigDependency" -> d.is_found
          [] d.cls = "BoostDependency" -> d.version # Nothing
          [] d.cls = "GTestDependency" -> Exists(d.all_src)
          [] d.cls = "GMockDependency" -> Exists(Join(d.libdir, d.libname))

\* get_compile_flags()
get_compile_flags(obj) ==
    LET d == Unwrap(obj)
    IN  CASE d.cls = "PkgConfigDependency" -> d.cflags
          [] d.cls = "BoostDependency" -> <<>>
          [] d.cls = "GTestDependency" ->
                (IF d.include_dir # <<"/usr/include">>
                 THEN <<(<<"-I">> \o d.include_dir)>> ELSE <<>>)
                \o <<(<<"-I">> \o d.src_include_dir)>>
          [] d.cls = "GMockDependency" -> <<>>

\* get_link_flags()
get_link_flags(obj) ==
    LET d == Unwrap(obj)
    IN  CASE d.cls = "PkgConfigDependency" -> d.libs
          [] d.cls = "BoostDependency" ->
                BoostLinkFlags(d.requested_modules, d.lib_modules)
          [] d.cls = "GTestDependency" -> << <<"-lpthread">> >>
          [] d.cls = "GMockDependency" -> << <<"-lgmock">> >>

\* get_sources()
get_sources(obj) ==
    LET d == Unwrap(obj)
    IN  CASE d.cls = "PkgConfigDependency" -> <<>>
          [] d.cls = "BoostDependency" -> <<>>
          [] d.cls = "GTestDependency" -> <<d.all_src, d.main_src>>
          [] d.cls = "GMockDependency" -> <<>>

-----------------------------------------------------------------------------
(* The registry and the resolution entry point.                            *)

Boost == <<"boost">>
GTest == <<"gtest">>
GMock == <<"gmock">>
Qt5 == <<"qt5">>

\* packages[name](kwargs)
packages(name, kwargs) ==
    CASE name = Boost -> BoostDependency(kwargs)
      [] name = GTest -> Returned(GTestDependency)
      [] name = GMock -> Returned(GMockDependency)
      [] name = Qt5 -> Qt5Dependency(kwargs)

Registered == {Boost, GTest, GMock, Qt5}

\* kwargs.get('required', False)
Required(kwargs) == IF kwargs.required = Nothing THEN FALSE ELSE The(kwargs.required)

\* find_external_dependency(name, kwargs): [ret, built, log, flag, runs, oks]
find_external_dependency(name, kwargs) ==
    LET required == Required(kwargs)
        dep == packages(name, kwargs)
        quiet(ret) == [ret |-> ret, built |-> dep, log |-> <<>>,
                       flag |-> pkgconfig_found, runs |-> 0, oks |-> 0]
    IN  IF name \in Registered
        THEN IF dep.kind = "raise" THEN quiet(dep)
             ELSE IF required /\ ~found(dep.obj)
             THEN quiet(Raised("DependencyException", name))
             ELSE quiet(Returned([cls |-> "PackageDependency", dep |-> dep.obj]))
        ELSE PkgConfigDependency(name, required)

-----------------------------------------------------------------------------
(* Inputs.                                                                 *)

Requireds == {Nothing, Some(FALSE), Some(TRUE)}
Thread == <<"thread">>
Algorithm == <<"algorithm">>
Nonexistent == <<"nonexistent">>
BoostModules ==
    {Nothing, Some(PyStr(Thread)), Some(PyList(<<>>)),
     Some(PyList(<<PyStr(Algorithm), PyStr(Thread)>>)),
     Some(PyList(<<PyStr(Thread), PyStr(Nonexistent)>>)),
     Some(PyList(<<PyInt(7)>>))}
Qt5ModuleArgs ==
    {Nothing, Some(PyList(<<>>)), Some(PyList(<<PyStr(<<"Core">>)>>)),
     Some(PyStr(<<"C", "o", "r", "e">>))}
Kwargs(reqs, mods) == {[required |-> r, modules |-> m] : r \in reqs, m \in mods}
NoArgs == [name |-> <<>>, kwargs |-> [required |-> Nothing, modules |-> Nothing]]

-----------------------------------------------------------------------------
(* Actions.                                                                *)

\* One call of find_external_dependency.
Resolve(name, kwargs) ==
    LET o == find_external_dependency(name, kwargs)
    IN  /\ check_runs + o.runs <= MaxCheckRuns
        /\ \E r \in DependencyException(o.ret) : res' = r
        /\ call' = [name |-> name, kwargs |-> kwargs]
        /\ \E b \in DependencyException(o.built) :
                built' = IF o.built = o.ret THEN res' ELSE b
        /\ log' = o.log
        /\ pkgconfig_found' = o.flag
        /\ check_runs' = check_runs + o.runs
        /\ check_oks' = check_oks + o.oks
        /\ seen' = Nothing
        /\ env_changed' = FALSE
        /\ UNCHANGED <<envPkg, envFs>>

ResolveGeneric ==
    \E n \in PkgNames, kw \in Kwargs(Requireds, {Nothing}) : Resolve(n, kw)

ResolveBoost ==
    \E kw \in Kwargs(Requireds, BoostModules) : Resolve(Boost, kw)

ResolveFixed ==
    \E n \in {GTest, GMock}, kw \in Kwargs(Requireds, {Nothing}) : Resolve(n, kw)

ResolveQt5 ==
    \E kw \in Kwargs(Requireds, Qt5ModuleArgs) : Resolve(Qt5, kw)

\* The caller reads the four accessors of the object it was given.
ReadAccessors ==
    /\ res.kind = "object"
    /\ seen' = Some([found |-> found(res.obj),
                     compile_flags |-> get_compile_flags(res.obj),
                     link_flags |-> get_link_flags(res.obj),
                     sources |-> get_sources(res.obj)])
    /\ UNCHANGED <<pkgconfig_found, envPkg, envFs, call, built, res, log,
                   check_runs, check_oks, env_changed>>

Keep == <<pkgconfig_found, call, built, res, log, check_runs, check_oks, seen>>

\* The environment changes between calls.
ChangeTool ==
    /\ \E t \in ToolStates \ {tool} : tool' = t
    /\ env_changed' = TRUE
    /\ UNCHANGED <<Keep, pkgdb, envFs>>

ChangePkg ==
    /\ \E n \in PkgNames : \E st \in PkgStates \ {pkgdb[n]} :
            pkgdb' = [pkgdb EXCEPT ![n] = st]
    /\ env_changed' = TRUE
    /\ UNCHANGED <<Keep, tool, envFs>>

Toggle(S, x) == IF x \in S THEN S \ {x} ELSE S \cup {x}

ChangeLib ==
    /\ \E f \in BoostLibFiles : files' = Toggle(files, f)
    /\ env_changed' = TRUE
    /\ UNCHANGED <<Keep, envPkg, dirs, header, path>>

ChangeFixed ==
    /\ \E f \in FixedFiles : files' = Toggle(files, f)
    /\ env_changed' = TRUE
    /\ UNCHANGED <<Keep, envPkg, dirs, header, path>>

ChangeDir ==
    /\ \E d \in BoostDirs : dirs' = Toggle(dirs, d)
    /\ env_changed' = TRUE
    /\ UNCHANGED <<Keep, envPkg, files, header, path>>

ChangeHeader ==
    /\ \E h \in Headers \ {header} : header' = h
    /\ env_changed' = TRUE
    /\ UNCHANGED <<Keep, envPkg, files, dirs, path>>

ChangePath ==
    /\ \E x \in Programs : path' = Toggle(path, x)
    /\ env_changed' = TRUE
    /\ UNCHANGED <<Keep, envPkg, files, dirs, header>>

-----------------------------------------------------------------------------
(* Specifications.                                                         *)

InitProgram ==
    /\ pkgconfig_found = FALSE
    /\ call = NoArgs
    /\ built = NoCall
    /\ res = NoCall
    /\ log = <<>>
    /\ check_runs = 0
    /\ check_oks = 0
    /\ seen = Nothing
    /\ env_changed = FALSE

\* The pkg-config probe by itself: any pkg-config installation, no files.
InitProbe ==
    /\ InitProgram
    /\ tool \in ToolStates
    /\ pkgdb \in [PkgNames -> PkgStates]
    /\ files = {} /\ dirs = {} /\ header = Nothing /\ path = {}

NextProbe == ResolveGeneric \/ ChangeTool \/ ChangePkg \/ ReadAccessors

SpecProbe == InitProbe /\ [][NextProbe]_vars

\* The Boost detector: any header and library tree.
InitTree ==
    /\ InitProgram
    /\ tool = "ok"
    /\ pkgdb = [n \in PkgNames |-> "absent"]
    /\ files \in SUBSET BoostLibFiles
    /\ dirs \in SUBSET BoostDirs
    /\ header \in Headers
    /\ path = {}

NextTree == ResolveBoost \/ ChangeLib \/ ChangeDir \/ ChangeHeader \/ ReadAccessors

SpecTree == InitTree /\ [][NextTree]_vars

\* The fixed-path detectors and Qt5: any files, search path and pkg-config
\* data base.
InitFixed ==
    /\ InitProgram
    /\ tool = "ok"
    /\ pkgdb \in [PkgNames -> PkgStates]
    /\ files \in SUBSET FixedFiles
    /\ dirs = {} /\ header = Nothing
    /\ path \in SUBSET Programs

NextFixed ==
    ResolveFixed \/ ResolveQt5 \/ ChangeFixed \/ ChangePath \/ ChangePkg
    \/ ReadAccessors

SpecFixed == InitFixed /\ [][NextFixed]_vars

-----------------------------------------------------------------------------
(* Properties.                                                             *)

\* A call has ended and the environment is still the one it ran in.
Fresh == res.kind # "none" /\ ~env_changed

\* The module names a `modules` option asks for.
RequestedNames(kwargs) ==
    IF kwargs.modules = Nothing THEN {}
    ELSE LET v == The(kwargs.modules)
         IN  IF IsStr(v) THEN {v.str}
             ELSE {v.list[i].str : i \in {j \in 1..Len(v.list) : IsStr(v.list[j])}}

\* The `modules` option is there and is a string or a sequence of strings.
WellFormedModules(kwargs) ==
    /\ kwargs.modules # Nothing
    /\ LET v == The(kwargs.modules)
       IN  IsStr(v) \/ \A i \in 1..Len(v.list) : IsStr(v.list[i])

\* The first-level subdirectories of the header root.
HeaderSubdirs == {Basename(d) : d \in {x \in dirs : Dirname(x) = IncDir}}

\* The version header exists / has the line defining BOOST_LIB_VERSION.
HeaderExists == header # Nothing
HasDirective ==
    /\ header # Nothing
    /\ \E i \in 1..Len(The(header)) : The(header)[i] = HdrLibVersion

PkgStatus(n) == IF n \in PkgNames THEN pkgdb[n] ELSE "absent"

\* The pkg-config names of the Qt5 modules a call asks for.
Qt5Names(kwargs) ==
    IF kwargs.modules = Nothing THEN {}
    ELSE LET v == The(kwargs.modules)
         IN  IF IsStr(v) THEN {<<"Qt5", v.str[i]>> : i \in 1..Len(v.str)}
             ELSE {<<"Qt5">> \o v.list[i].str : i \in 1..Len(v.list)}

\* C1: whenever found() is false on a returned dependency object, its
\* compile flags, link flags and sources are all empty.
C1_NotFoundImpliesEmpty ==
    (res.kind = "object" /\ ~found(res.obj)) =>
        /\ get_compile_flags(res.obj) = <<>>
        /\ get_link_flags(res.obj) = <<>>
        /\ get_sources(res.obj) = <<>>

\* C2: a required dependency that pkg-config reports absent (--modversion
\* exits nonzero) ends the call with a DependencyException naming it, and no
\* --cflags or --libs query is issued.
C2_RequiredAbsentRaisesNotFound ==
    (/\ Fresh /\ call.name \in PkgNames /\ Required(call.kwargs)
     /\ tool = "ok" /\ pkgdb[call.name] = "absent") =>
        /\ res.kind = "raise"
        /\ res.exc = "DependencyException"
        /\ res.about = call.name
        /\ \A i \in 1..Len(log) : log[i].opt \notin {"--cflags", "--libs"}

\* The dependency a call names is not present in the environment.
NotPresent ==
    CASE call.name = GTest -> GTestAll \notin files
      [] call.name = GMock -> Join(LibDir, LibGMock) \notin files
      [] call.name = Qt5 ->
            /\ Qt5Names(call.kwargs) # {}
            /\ \/ \E n \in Qt5Names(call.kwargs) : PkgStatus(n) = "absent"
               \/ ~(Programs \subseteq path)
      [] OTHER -> FALSE

\* C3: with required false or omitted, a dependency that is not present
\* makes the call return an object whose found() is false, and no error.
C3_OptionalAbsentReturnsNotFound ==
    (Fresh /\ ~Required(call.kwargs) /\ NotPresent) =>
        res.kind = "object" /\ ~found(res.obj)

\* C4 as stated: check_pkgconfig runs at most once in a process, and once
\* pkgconfig_found is true it stays true and the check is not run again.
C4_CheckAtMostOnce ==
    [][/\ check_runs' <= 1
       /\ pkgconfig_found => (pkgconfig_found' /\ check_runs' = check_runs)]_vars

\* C4 amended: check_pkgconfig exits successfully at most once in a process;
\* once pkgconfig_found is true it stays true and the check is not run
\* again; the check runs only while the flag is false.
C4_CheckSucceedsAtMostOnce ==
    [][/\ check_oks' <= 1
       /\ pkgconfig_found => (pkgconfig_found' /\ check_runs' = check_runs)
       /\ check_runs' > check_runs => ~pkgconfig_found]_vars

\* A resolution failed on the check, a later one passed it, and the probe
\* after that skipped it.
C4_Witness ==
    /\ pkgconfig_found /\ check_oks = 1 /\ check_runs >= 2
    /\ res.kind # "none" /\ log # <<>> /\ log[1].opt = "--modversion"

\* C5 as stated: a requested Boost module that is no subdirectory of the
\* header root makes the constructor raise InvalidArguments, whatever
\* `required` and whatever the version header holds.
C5_UnknownModuleAlwaysInvalid ==
    (/\ Fresh /\ call.name = Boost /\ HeaderExists
     /\ RequestedNames(call.kwargs) \ HeaderSubdirs # {}) =>
        built.kind = "raise" /\ built.exc = "InvalidArguments"

\* C5 amended: such a module makes the constructor raise InvalidArguments,
\* whatever `required`, when the version header defines BOOST_LIB_VERSION;
\* when it does not, the modules are not validated and the constructor
\* returns a detector whose found() is false.
C5_UnknownModuleInvalidWhenVersioned ==
    (/\ Fresh /\ call.name = Boost /\ HeaderExists
     /\ RequestedNames(call.kwargs) \ HeaderSubdirs # {}) =>
        IF HasDirective
        THEN built.kind = "raise" /\ built.exc = "InvalidArguments"
        ELSE WellFormedModules(call.kwargs) =>
                built.kind = "object" /\ ~found(built.obj)

\* A misspelled module behind a valid one is rejected although the
\* dependency is optional.
C5_Witness ==
    /\ Fresh /\ call.name = Boost /\ HasDirective
    /\ ~Required(call.kwargs)
    /\ Join(IncDir, Thread) \in dirs
    /\ RequestedNames(call.kwargs) = {Thread, Nonexistent}
    /\ res.exc = "InvalidArguments" /\ res.about = Nonexistent

\* C6: a Qt5 detector built from a nonempty module list is found exactly
\* when every module's probe is found and moc and uic are on the path.
C6_Qt5FoundIffAll ==
    (/\ Fresh /\ call.name = Qt5 /\ Qt5Names(call.kwargs) # {}
     /\ \A n \in Qt5Names(call.kwargs) : PkgStatus(n) \in {"ok", "absent"}) =>
        /\ built.kind = "object"
        /\ found(built.obj) <=>
              /\ \A n \in Qt5Names(call.kwargs) : PkgStatus(n) = "ok"
              /\ Programs \subseteq path

\* The queries of the generic probe, the check of the tool left out.
ProbeQueries == LET IsProbe(q) == q.opt # "--version" IN SelectSeq(log, IsProbe)
QueryOrder == <<"--modversion", "--cflags", "--libs">>

\* C7: the generic probe queries --modversion, --cflags, --libs in this
\* order, --cflags only after --modversion exited 0 and --libs only after
\* --cflags exited 0; a nonzero exit of --cflags or --libs raises
\* RuntimeError whatever `required`, and no object is returned.
C7_QueryOrderAndToolingFault ==
    (Fresh /\ call.name \in PkgNames) =>
        LET qs == ProbeQueries
            st == pkgdb[call.name]
        IN  /\ Len(qs) <= Len(QueryOrder)
            /\ \A i \in 1..Len(qs) :
                    qs[i] = [opt |-> QueryOrder[i], name |-> call.name]
            /\ Len(qs) >= 2 => (tool # "absent" /\ st # "absent")
            /\ Len(qs) = 3 => st \in {"ok", "libs_fail"}
            /\ (Len(qs) >= 1 /\ tool # "absent"
                /\ st \in {"cflags_fail", "libs_fail"}) =>
                    /\ res.kind = "raise" /\ res.exc = "RuntimeError"
                    /\ res.obj = NoObj

\* An optional dependency whose --libs query fails after the other two
\* succeeded.
C7_Witness ==
    /\ Fresh /\ call.name \in PkgNames /\ ~Required(call.kwargs)
    /\ pkgdb[call.name] = "libs_fail"
    /\ Len(log) >= 3 /\ log[Len(log)].opt = "--libs"
    /\ res.exc = "RuntimeError"

\* C8 as stated: with a version header that has no BOOST_LIB_VERSION line
\* the Boost constructor raises nothing, whatever the options, and the
\* detector's found() is false.
C8_NoDirectiveNeverRaises ==
    (Fresh /\ call.name = Boost /\ HeaderExists /\ ~HasDirective) =>
        built.kind = "object" /\ ~found(built.obj)

\* C8 amended: it raises nothing and the detector's found() is false when
\* the options carry `modules` as a string or a sequence of strings;
\* otherwise the constructor raises InvalidArguments.
C8_NoDirectiveNotFoundIfWellFormed ==
    (Fresh /\ call.name = Boost /\ HeaderExists /\ ~HasDirective) =>
        IF WellFormedModules(call.kwargs)
        THEN built.kind = "object" /\ ~found(built.obj)
        ELSE built.kind = "raise" /\ built.exc = "InvalidArguments"

\* A header without the directive gives a detector that is not found, even
\* for a module that does not exist.
C8_Witness ==
    /\ Fresh /\ call.name = Boost /\ HeaderExists /\ ~HasDirective
    /\ Nonexistent \in RequestedNames(call.kwargs)
    /\ built.kind = "object" /\ ~found(built.obj)

ModuleNames ==
    {Thread, Algorithm, <<"thread", "-mt">>, <<"python-3">>,
     <<"python-3", ".", "6">>}
LibFileOf(m) == Join(LibDir, <<"libboost", "_">> \o m \o <<".", "so">>)

\* C9: a found Boost detector's link flags are "-lboost_<m>" for the
\* requested modules m in its library-module set, in request order; and m
\* is in that set exactly when libboost_<m>.so exists in the library root
\* and is no "-mt.so" file.
C9_LinkFlagsAndLibModules ==
    (Fresh /\ call.name = Boost /\ res.kind = "object" /\ found(res.obj)) =>
        LET d == Unwrap(res.obj)
            InLib(m) == m \in d.lib_modules
            wanted == SelectSeq(d.requested_modules, InLib)
        IN  /\ get_link_flags(res.obj) =
                    [i \in 1..Len(wanted) |-> <<"-lboost_">> \o wanted[i]]
            /\ \A m \in ModuleNames :
                    m \in d.lib_modules <=>
                        /\ LibFileOf(m) \in files
                        /\ ~EndsWith(LibFileOf(m), <<"-mt", ".", "so">>)

\* C10: the accessors of a returned object give the same results however
\* the file system changes between two reads.
C10_AccessorsStable ==
    [][(res' = res /\ seen # Nothing /\ seen' # Nothing) => seen' = seen]_vars

====
